---- MODULE Spec2Model ----
(***************************************************************************)
(* Request-governance layer of the backend: the Redis-backed rate limiter  *)
(* (middlewares/rateLimiter), the response cache (middlewares/cache and    *)
(* services/cache) and their key builders.                                 *)
(*                                                                         *)
(* Strings are sequences of one-character strings, so that the regular     *)
(* expression pipelines of normalizePath and sanitizeCacheKey are computed *)
(* character by character as the code computes them.                       *)
(***************************************************************************)
EXTENDS Integers, Sequences, FiniteSets, TLC

(***************************************************************************)
(* Character classes                                                       *)
(***************************************************************************)
LowerLetters ==
    <<"a","b","c","d","e","f","g","h","i","j","k","l","m",
      "n","o","p","q","r","s","t","u","v","w","x","y","z">>

UpperLetters ==
    <<"A","B","C","D","E","F","G","H","I","J","K","L","M",
      "N","O","P","Q","R","S","T","U","V","W","X","Y","Z">>

Digits == {"0","1","2","3","4","5","6","7","8","9"}

Range(s) == {s[i] : i \in 1..Len(s)}

\* \s of a JavaScript regular expression, as far as the model's alphabet goes
Whitespace == {" ", "\t", "\n"}

\* String.prototype.toLowerCase on one character
LowerChar(c) ==
    IF c \in Range(UpperLetters)
    THEN LowerLetters[CHOOSE i \in 1..Len(UpperLetters) : UpperLetters[i] = c]
    ELSE c

\* every run of characters of the set cs is cut down to its first character
CollapseRunsIn(s, cs) ==
    LET F[i \in 0..Len(s)] ==
            IF i = 0 THEN <<>>
            ELSE IF s[i] \in cs /\ i > 1 /\ s[i-1] \in cs
                 THEN F[i-1]
                 ELSE Append(F[i-1], s[i])
    IN F[Len(s)]

\* s.replace(/c+/g, c): every run of the character c becomes one c
CollapseRuns(s, c) == CollapseRunsIn(s, {c})

\* s.replace(/^c|c$/g, ''): one leading and one trailing c are removed
StripEnds(s, c) ==
    LET first == IF Len(s) >= 1 /\ s[1] = c THEN 2 ELSE 1
        last  == IF Len(s) >= first /\ s[Len(s)] = c THEN Len(s) - 1 ELSE Len(s)
    IN SubSeq(s, first, last)

\* s.replace(/[^class]/g, '_')
ReplaceOutside(s, class) ==
    [i \in 1..Len(s) |-> IF s[i] \in class THEN s[i] ELSE "_"]

(***************************************************************************)
(* rateLimiter: normalizePath / getRateLimitKey                            *)
(***************************************************************************)
RouteClass == Range(LowerLetters) \cup Digits \cup {"/", "_", "-"}

toLowerCase(s) == [i \in 1..Len(s) |-> LowerChar(s[i])]

\* a faulty normalizePath: the slashes are not collapsed, the case is kept
normalizePath_noCollapse(path) ==
    ReplaceOutside(StripEnds(path, "/"), RouteClass \cup Range(UpperLetters))

normalizePath(path) ==
    ReplaceOutside(StripEnds(CollapseRuns(toLowerCase(path), "/"), "/"), RouteClass)

\* a faulty getRateLimitKey: the identifier is left out of the key
getRateLimitKey_noIdentifier(prefix, type, identifier, path) ==
    prefix \o <<":">> \o type \o <<":">> \o normalizePath(path)

getRateLimitKey(prefix, type, identifier, path) ==
    prefix \o <<":">> \o type \o <<":">> \o identifier \o <<":">> \o normalizePath(path)

(***************************************************************************)
(* services/cache/cache.helpers: sanitizeCacheKey / buildCacheKey          *)
(***************************************************************************)
CacheClass ==
    Range(LowerLetters) \cup Range(UpperLetters) \cup Digits
        \cup {":", "/", "_", "?", "&", "=", ".", "-"}

\* s.replace(/\s+/g, '_'): every run of whitespace becomes one underscore
ReplaceWhitespaceRuns(s) ==
    LET kept == CollapseRunsIn(s, Whitespace)
    IN [i \in 1..Len(kept) |-> IF kept[i] \in Whitespace THEN "_" ELSE kept[i]]

\* a faulty variant: the ends are not trimmed
sanitizeCacheKey_noStrip(key) ==
    CollapseRuns(ReplaceOutside(ReplaceWhitespaceRuns(key), CacheClass), "_")

sanitizeCacheKey(key) ==
    IF key = <<>> THEN <<>>
    ELSE StripEnds(
            CollapseRuns(ReplaceOutside(ReplaceWhitespaceRuns(key), CacheClass), "_"),
            "_")

\* the Error thrown by buildCacheKey; no string of characters equals it
InvalidKey == <<"Error: Cache prefix and key are required">>

buildCacheKey(prefix, key) ==
    IF prefix = <<>> \/ key = <<>> THEN InvalidKey
    ELSE sanitizeCacheKey(prefix) \o <<":">> \o sanitizeCacheKey(key)

(***************************************************************************)
(* Bounds of the model                                                     *)
(***************************************************************************)
\* request slots: the requests that can be in flight at the same time
NumReq == 2

\* `max` of the policies (config: 300, 50, 3, ...; RATE_LIMIT_MAX_REQUESTS)
MaxRequests == 2

\* whole seconds of `windowMs` (config: 15 * 60, 60, ...; RATE_LIMIT_WINDOW_MS)
WindowSec == 2

\* windowMs need not be a whole number of seconds (it is read from the
\* environment for the global policy)
WindowMs == WindowSec * 1000 + 500

Reqs == 1..NumReq

(***************************************************************************)
(* config.rateLimit: the policies, with max and windowMs scaled down       *)
(***************************************************************************)
rateLimitConfig ==
    [ global |-> [ name |-> <<"g","l","o","b","a","l">>, windowMs |-> WindowMs, max |-> MaxRequests,
                   bypass |-> FALSE, failClosed |-> FALSE,
                   redisPrefix |-> <<"r","l">>,
                   skipSuccessfulRequests |-> FALSE, standardHeaders |-> TRUE ],
      auth   |-> [ name |-> <<"a","u","t","h">>, windowMs |-> WindowMs, max |-> MaxRequests,
                   bypass |-> FALSE, failClosed |-> TRUE,
                   redisPrefix |-> <<"r","l",":","a","u","t","h">>,
                   skipSuccessfulRequests |-> TRUE, standardHeaders |-> TRUE ],
      admin  |-> [ name |-> <<"a","d","m","i","n">>, windowMs |-> WindowMs, max |-> MaxRequests,
                   bypass |-> FALSE, failClosed |-> TRUE,
                   redisPrefix |-> <<"r","l",":","a","d","m","i","n">>,
                   skipSuccessfulRequests |-> FALSE, standardHeaders |-> TRUE ],
      health |-> [ name |-> <<"h","e","a","l","t","h">>, windowMs |-> WindowMs, max |-> MaxRequests,
                   bypass |-> FALSE, failClosed |-> FALSE,
                   redisPrefix |-> <<"r","l",":","h","e","a","l","t","h">>,
                   skipSuccessfulRequests |-> FALSE, standardHeaders |-> FALSE ] ]

RateLimitTypes == {"global", "auth", "admin", "health"}

\* the client addresses a request may carry; <<>> is "undefined"
ClientIps == {<<"1">>}
NoIp == <<>>
Unknown == <<"u","n","k","n","o","w","n">>

\* req.path of the requests: two spellings of one route
RoutePaths == {<<"/","p">>, <<"/","/","P","/">>}

\* const identifier = getClientIp(req) || req.ip || 'unknown'
Identifier(clientIp, reqIp) ==
    IF clientIp # NoIp THEN clientIp
    ELSE IF reqIp # NoIp THEN reqIp
    ELSE Unknown

\* const key = getRateLimitKey(redisPrefix, type, identifier, req.path),
\* tabulated for the requests of the model
KeyTable ==
    [ t \in RateLimitTypes, id \in ClientIps \cup {Unknown}, path \in RoutePaths |->
        getRateLimitKey(rateLimitConfig[t].redisPrefix, rateLimitConfig[t].name,
                        id, path) ]

KeyOf(type, identifier, path) == KeyTable[type, identifier, path]

(***************************************************************************)
(* services/redis/redis.service: the store's operations on a counter.      *)
(* A counter is [count, ttl]; count = 0 and ttl = 0 is the absent key.      *)
(***************************************************************************)
Absent == [count |-> 0, ttl |-> 0]

\* getKeyWithTTL: {value, ttl}; the TTL of an absent key is -2
getKeyWithTTL(s, key) ==
    IF s[key] = Absent THEN [value |-> 0, ttl |-> -2]
    ELSE [value |-> s[key].count, ttl |-> s[key].ttl]

\* setKey(key, value, ttlSeconds): overwrites the value and the TTL
setKey(s, key, value, ttl) ==
    [s EXCEPT ![key] = [count |-> value, ttl |-> ttl]]

\* incrKey(key, ttlSeconds): creates the key with the TTL on the first call,
\* increments without touching the TTL afterwards; one atomic round trip
incrKey(s, key, ttl) ==
    IF s[key] = Absent
    THEN [s EXCEPT ![key] = [count |-> 1, ttl |-> ttl]]
    ELSE [s EXCEPT ![key].count = @ + 1]

(***************************************************************************)
(* rateLimiter: the pieces of the handlers                                 *)
(***************************************************************************)
Max(a, b) == IF a >= b THEN a ELSE b

\* Math.ceil(ms / 1000) for ms >= 0
CeilSeconds(ms) == (ms + 999) \div 1000

\* const ttlSeconds = Math.floor(windowMs / 1000)
ttlSeconds(windowMs) == windowMs \div 1000

\* a faulty variant: the reset time is always a whole window away
getRateLimitStatus_fullWindow(s, key, limit, windowMs) ==
    [ current   |-> getKeyWithTTL(s, key).value,
      limit     |-> limit,
      remaining |-> Max(0, limit - getKeyWithTTL(s, key).value),
      resetIn   |-> windowMs ]

\* getRateLimitStatus; resetIn is resetTime - Date.now() in milliseconds
getRateLimitStatus(s, key, limit, windowMs) ==
    LET got == getKeyWithTTL(s, key)
    IN [ current   |-> got.value,
         limit     |-> limit,
         remaining |-> Max(0, limit - got.value),
         resetIn   |-> IF got.ttl > 0 THEN got.ttl * 1000 ELSE windowMs ]

\* the rate-limit headers of a response; retryAfter = 0 is no Retry-After
NoHeaders ==
    [set |-> FALSE, limit |-> 0, remaining |-> 0, resetIn |-> 0, retryAfter |-> 0]

\* setRateLimitHeaders(res, info, standardHeaders); resetIn is
\* info.resetTime - Date.now() in milliseconds
setRateLimitHeaders(headers, info, standardHeaders) ==
    IF standardHeaders
    THEN [ set |-> TRUE, limit |-> info.limit,
           remaining |-> Max(0, info.remaining), resetIn |-> info.resetIn,
           retryAfter |-> IF info.remaining <= 0
                          THEN Max(1, CeilSeconds(info.resetIn))
                          ELSE headers.retryAfter ]
    ELSE headers

\* a faulty variant: the request itself is not taken off
Remaining_before(limit, count) == limit - count + 1

\* remaining: limit - 1 and remaining: limit - newCount
Remaining(limit, count) == limit - count

\* a faulty variant: the limit itself is still admitted
LimitExceeded_offByOne(current, limit) == current > limit

\* if (status.current >= limit)
LimitExceeded(current, limit) == current >= limit

\* if (status.current === 0)
IsFirstRequest(current) == current = 0

\* a faulty variant: the one-shot flag is not consulted
ShouldIncrement_noFlag(hasIncremented, statusCode) == statusCode >= 400

\* incrementOnError: if (hasIncremented || res.statusCode < 400) return
ShouldIncrement(hasIncremented, statusCode) ==
    ~(hasIncremented \/ statusCode < 400)

\* a faulty variant: the window is rounded up
FailClosedRetryAfter_ceil(windowMs) == CeilSeconds(windowMs)

\* catch: retryAfter: Math.floor(windowMs / 1000)
FailClosedRetryAfter(windowMs) == windowMs \div 1000

\* a faulty variant: an unidentified client is let through whatever the policy says
DenyUnidentified_never(identifier, failClosed) == FALSE

\* if (identifier === 'unknown' && failClosed)
DenyUnidentified(identifier, failClosed) == identifier = Unknown /\ failClosed

(***************************************************************************)
(* State                                                                   *)
(***************************************************************************)
VARIABLES
    store,   \* the rate-limit counters of the shared store, by key
    req,     \* the request in each slot: where it stands in rateLimiter
    win,     \* history, by key: what happened since the key was last absent
    client,  \* the policy and the client identifier that this run follows
    routes,  \* key building on its own: the inputs of two requests or call sites
    resolved, \* key building on its own: their identifiers and counter keys
    kv,      \* the response cache's entries of the shared store, by key
    creq,    \* the request in each slot: where it stands in the cache middleware
    ops,     \* the cache's store operations that are under way
    build,   \* the cache service of the server and the route the run follows
    call,    \* the last call of a function of the cache service, and its result
    pkce,    \* the PKCE challenges of the shared store and the calls that consume them
    http     \* the frontend HTTP client: isRefreshing, failedQueue and its requests

rlvars == <<store, req, win, client>>
keyvars == <<routes, resolved>>
cachevars == <<kv, creq, ops, build, call>>
sidevars == <<pkce, http>>
vars == <<rlvars, keyvars, cachevars, sidevars>>

\* what the steps of the rate limiter leave alone
rlframe == <<client, keyvars, cachevars, sidevars>>

\* the response codes a handler (or the error handler) finalises with
StatusCodes == {200, 400}

\* how the response is finalised: res.json (which calls res.send) or res.send
TerminalPaths == {"json", "send"}

\* the same with res.end, which res.send calls and which finalises a response
\* that is written without res.json and res.send (res.end(), a stream)
FinalPaths == TerminalPaths \cup {"end"}

IdleReq ==
    [ pc |-> "idle", type |-> "none", key |-> <<>>, identifier |-> <<>>,
      current |-> 0, outcome |-> "none", message |-> "none", retryAfter |-> 0,
      statusCode |-> 0, armed |-> FALSE, hasIncremented |-> FALSE, inflight |-> 0,
      reads |-> 0, writes |-> 0, prior |-> 0, clean |-> TRUE, failed |-> "none",
      headers |-> NoHeaders, resetIn |-> 0 ]

NewWindow == [counted |-> 0, fault |-> FALSE]

\* the counter keys that the requests of client c are mapped to
ClientKeys(c) == {KeyOf(c.type, c.identifier, path) : path \in RoutePaths}

\* the counters of different keys are separate entries of the store, so a run
\* follows the requests of one client under one policy and holds its counters
RLInit ==
    /\ client \in [type : RateLimitTypes, identifier : ClientIps \cup {Unknown}]
    /\ store = [k \in ClientKeys(client) |-> Absent]
    /\ win = [k \in ClientKeys(client) |-> NewWindow]
    /\ req = [p \in Reqs |-> IdleReq]

\* a faulty variant: the denied request is left with an interceptor
Deny_armed(r, message, retryAfter) ==
    [r EXCEPT !.pc = "done", !.outcome = "429", !.message = message,
              !.retryAfter = retryAfter, !.armed = TRUE]

\* next(new TooManyRequestsError(message, {limit, retryAfter})): 429
Deny(r, message, retryAfter) ==
    [r EXCEPT !.pc = "done", !.outcome = "429", !.message = message,
              !.retryAfter = retryAfter]

\* next(): the request goes on to its handler
Allow(r) == [r EXCEPT !.pc = "handler", !.outcome = "next"]

\* the catch block of rateLimiter: a store operation of the check has failed
Caught(r, cfg) ==
    IF cfg.failClosed
    THEN Deny([r EXCEPT !.failed = "check", !.clean = FALSE],
              "Rate limit check failed", FailClosedRetryAfter(cfg.windowMs))
    ELSE Allow([r EXCEPT !.failed = "check", !.clean = FALSE])

Fault(w, key) == [w EXCEPT ![key].fault = TRUE]

(***************************************************************************)
(* rateLimiter(type), up to the answer of getRateLimitStatus               *)
(***************************************************************************)
Check(p, type, clientIp, reqIp, path, ok) ==
    LET cfg        == rateLimitConfig[type]
        identifier == Identifier(clientIp, reqIp)
        key        == KeyOf(type, identifier, path)
        status     == getRateLimitStatus(store, key, cfg.max, cfg.windowMs)
        r0         == [IdleReq EXCEPT !.type = type, !.identifier = identifier]
        r1         == [r0 EXCEPT !.key = key, !.reads = 1,
                                 !.current = status.current,
                                 !.resetIn = status.resetIn,
                                 !.prior = win[key].counted,
                                 !.clean = ~win[key].fault]
        \* handleSkipSuccessfulRequests: setRateLimitHeaders(res, status)
        \* handleStandardRateLimit, limit exceeded:
        \* setRateLimitHeaders(res, status, standardHeaders)
        r2         == [r1 EXCEPT !.headers =
                          setRateLimitHeaders(NoHeaders, status,
                              cfg.skipSuccessfulRequests \/ cfg.standardHeaders)]
    IN
    /\ req[p].pc \in {"idle", "done", "closed"}
    /\ UNCHANGED rlframe
    /\ IF cfg.bypass
       THEN /\ ok
            /\ req' = [req EXCEPT ![p] = Allow(r0)]
            /\ UNCHANGED <<store, win>>
       ELSE IF DenyUnidentified(identifier, cfg.failClosed)
       THEN \* next(new Error('Cannot determine client identifier')): 500
            /\ ok
            /\ req' = [req EXCEPT ![p] =
                          [r0 EXCEPT !.pc = "done", !.outcome = "500",
                                     !.message = "Cannot determine client identifier"]]
            /\ UNCHANGED <<store, win>>
       ELSE IF ~ok
       THEN \* getKeyWithTTL throws
            /\ req' = [req EXCEPT ![p] =
                          Caught([r0 EXCEPT !.key = key, !.reads = 1], cfg)]
            /\ win' = Fault(win, key)
            /\ UNCHANGED store
       ELSE IF LimitExceeded(status.current, cfg.max)
       THEN \* both handlers: deny from the status that was read
            /\ req' = [req EXCEPT ![p] =
                          Deny(r2, "policy", CeilSeconds(status.resetIn))]
            /\ UNCHANGED <<store, win>>
       ELSE IF cfg.skipSuccessfulRequests
       THEN \* handleSkipSuccessfulRequests: arm res.json and res.send, next()
            /\ req' = [req EXCEPT ![p] = Allow([r2 EXCEPT !.armed = TRUE])]
            /\ UNCHANGED <<store, win>>
       ELSE \* handleStandardRateLimit: await setKey or await incrKey
            /\ req' = [req EXCEPT ![p] =
                          [r1 EXCEPT !.pc = IF IsFirstRequest(status.current)
                                            THEN "set" ELSE "incr"]]
            /\ UNCHANGED <<store, win>>

(***************************************************************************)
(* handleStandardRateLimit: the write that follows the read                *)
(***************************************************************************)
Write(p, ok) ==
    LET r   == req[p]
        cfg == rateLimitConfig[r.type]
        ttl == ttlSeconds(cfg.windowMs)
        \* the headers after setKey, and after incrKey has returned newCount
        info == IF r.pc = "set"
                THEN [limit |-> cfg.max, remaining |-> Remaining(cfg.max, 1),
                      resetIn |-> cfg.windowMs]
                ELSE [limit |-> cfg.max,
                      remaining |-> Remaining(cfg.max,
                                        incrKey(store, r.key, ttl)[r.key].count),
                      resetIn |-> r.resetIn]
    IN
    /\ r.pc \in {"set", "incr"}
    /\ UNCHANGED rlframe
    /\ IF ok
       THEN /\ store' = IF r.pc = "set" THEN setKey(store, r.key, 1, ttl)
                        ELSE incrKey(store, r.key, ttl)
            /\ win' = [win EXCEPT ![r.key].counted = @ + 1]
            /\ req' = [req EXCEPT ![p] =
                          Allow([r EXCEPT !.writes = @ + 1,
                                          !.headers = setRateLimitHeaders(
                                              NoHeaders, info, cfg.standardHeaders),
                                          !.prior = win[r.key].counted,
                                          !.clean = r.clean /\ ~win[r.key].fault])]
       ELSE /\ req' = [req EXCEPT ![p] = Caught(r, cfg)]
            /\ win' = Fault(win, r.key)
            /\ UNCHANGED store

(***************************************************************************)
(* The handler finalises the response; the interceptors armed by           *)
(* handleSkipSuccessfulRequests run incrementOnError                       *)
(***************************************************************************)
incrementOnError(r) ==
    IF ShouldIncrement(r.hasIncremented, r.statusCode)
    THEN [r EXCEPT !.hasIncremented = TRUE, !.inflight = @ + 1]
    ELSE r

Respond(p, statusCode, via) ==
    LET r  == [req[p] EXCEPT !.statusCode = statusCode]
        r2 == IF ~r.armed \/ via = "end" THEN r
              ELSE IF via = "json" THEN incrementOnError(incrementOnError(r))
              ELSE incrementOnError(r)
    IN
    /\ req[p].pc = "handler"
    /\ UNCHANGED rlframe
    /\ req' = [req EXCEPT ![p] =
                  [r2 EXCEPT !.pc = IF r2.inflight > 0 THEN "pending" ELSE "done"]]
    /\ UNCHANGED <<store, win>>

\* await incrKey(key, ttlSeconds) inside incrementOnError; a failure is logged
Increment(p, ok) ==
    LET r   == req[p]
        cfg == rateLimitConfig[r.type]
        r2  == [r EXCEPT !.inflight = @ - 1,
                         !.pc = IF r.inflight = 1 THEN "done" ELSE "pending"]
    IN
    /\ r.pc = "pending"
    /\ UNCHANGED rlframe
    /\ IF ok
       THEN /\ store' = incrKey(store, r.key, ttlSeconds(cfg.windowMs))
            /\ win' = [win EXCEPT ![r.key].counted = @ + 1]
            /\ req' = [req EXCEPT ![p] = [r2 EXCEPT !.writes = @ + 1]]
       ELSE /\ win' = Fault(win, r.key)
            /\ req' = [req EXCEPT ![p] = [r2 EXCEPT !.failed = "increment"]]
            /\ UNCHANGED store

\* one second passes: every TTL runs down, a key whose TTL ends disappears
Tick ==
    /\ store' = [k \in DOMAIN store |->
                    IF store[k].ttl <= 1 THEN Absent
                    ELSE [store[k] EXCEPT !.ttl = @ - 1]]
    /\ win' = [k \in DOMAIN win |->
                    IF store[k].ttl <= 1 THEN NewWindow ELSE win[k]]
    /\ UNCHANGED <<req, rlframe>>

Arrive(p) ==
    \E clientIp \in ClientIps \cup {NoIp}, reqIp \in ClientIps \cup {NoIp},
       path \in RoutePaths, ok \in BOOLEAN :
        /\ Identifier(clientIp, reqIp) = client.identifier
        /\ Check(p, client.type, clientIp, reqIp, path, ok)

Step(p) ==
    \/ \E ok \in BOOLEAN : Write(p, ok)
    \/ \E statusCode \in StatusCodes, via \in TerminalPaths : Respond(p, statusCode, via)
    \/ \E ok \in BOOLEAN : Increment(p, ok)

\* key building and the cache when the run is about the rate limiter
KeyIdle == routes = <<>> /\ resolved = <<>>
CacheIdle == kv = <<>> /\ creq = <<>> /\ ops = {} /\ build = <<>> /\ call = <<>>
SideIdle == pkce = <<>> /\ http = <<>>

Init == RLInit /\ KeyIdle /\ CacheIdle /\ SideIdle

Next ==
    \/ \E p \in Reqs : Arrive(p)
    \/ \E p \in Reqs : Step(p)
    \/ Tick

Spec == Init /\ [][Next]_vars

\* a burst: the requests of the client overlap and are all over before a
\* second has passed, at most NumReq of them under way at any time
BurstNext ==
    \/ \E p \in Reqs : Arrive(p)
    \/ \E p \in Reqs : Step(p)

BurstSpec == Init /\ [][BurstNext]_vars

\* the requests of the client come one after another: the next one is issued
\* when the one before it has been answered and its store operations are over
SeqNext ==
    \/ Arrive(1)
    \/ Step(1)
    \/ Tick

SeqSpec == Init /\ [][SeqNext]_vars

\* the same, with handlers that may finalise the response through res.end
RespondAny(p) ==
    \E statusCode \in StatusCodes, via \in FinalPaths : Respond(p, statusCode, via)

EndNext ==
    \/ Arrive(1)
    \/ \E ok \in BOOLEAN : Write(1, ok)
    \/ RespondAny(1)
    \/ \E ok \in BOOLEAN : Increment(1, ok)
    \/ Tick

EndSpec == Init /\ [][EndNext]_vars

(***************************************************************************)
(* Key building on its own: getRateLimitKey applied to the paths and the   *)
(* identifiers of two requests under one policy                            *)
(***************************************************************************)
\* the characters of the paths: a letter in both cases, the slash, a
\* character outside [a-z0-9/_-] and the underscore that replaces it
PathChars == {"a", "A", "/", ":", "_"}

\* longest req.path of the pairs of requests
MaxPathLen == 2

\* longest req.path of a route and of its spellings
MaxSpellingLen == 4

StringsUpTo(chars, n) == UNION {[1..k -> chars] : k \in 0..n}

\* identifiers as getClientIp gives them: an IPv4-like and an IPv6-like one
ClientIds == {<<"1">>, <<":", ":", "1">>}

KeyPolicy == rateLimitConfig["global"]

ResolvedKey(identifier, path) ==
    getRateLimitKey(KeyPolicy.redisPrefix, KeyPolicy.name, identifier, path)

\* the rows of a rateLimiter call that end in getRateLimitKey, for two requests
Resolve(idA, idB) ==
    [ idA |-> idA, idB |-> idB,
      keyA |-> ResolvedKey(idA, routes[1]), keyB |-> ResolvedKey(idB, routes[2]) ]

KeyInit ==
    /\ routes \in StringsUpTo(PathChars, MaxPathLen) \X StringsUpTo(PathChars, MaxPathLen)
    /\ resolved = <<>>
    /\ RLInit /\ CacheIdle /\ SideIdle
    /\ client = [type |-> "global", identifier |-> <<"1">>]

ResolveKeys ==
    /\ resolved = <<>>
    /\ \E idA \in ClientIds, idB \in ClientIds : resolved' = Resolve(idA, idB)
    /\ UNCHANGED <<routes, rlvars, cachevars, sidevars>>

KeySpec == KeyInit /\ [][ResolveKeys]_vars

(***************************************************************************)
(* Cache key building on its own: buildCacheKey applied to the namespaces  *)
(* and the raw keys of two call sites                                      *)
(***************************************************************************)
\* the characters of namespaces and raw keys: a letter, the separator, the
\* underscore and a character outside [a-zA-Z0-9:/_?&=.-]
KeyChars == {"a", ":", "_", "#"}

\* longest namespace and longest raw key
MaxKeyLen == 2

\* routes is <<namespace, raw key, namespace, raw key>> here
BuildInit ==
    /\ routes \in [1..4 -> StringsUpTo(KeyChars, MaxKeyLen)]
    /\ resolved = <<>>
    /\ RLInit /\ CacheIdle /\ SideIdle
    /\ client = [type |-> "global", identifier |-> <<"1">>]

BuildKeys ==
    /\ resolved = <<>>
    /\ resolved' = [ keyA |-> buildCacheKey(routes[1], routes[2]),
                     keyB |-> buildCacheKey(routes[3], routes[4]) ]
    /\ UNCHANGED <<routes, rlvars, cachevars, sidevars>>

BuildSpec == BuildInit /\ [][BuildKeys]_vars

\* sanitizeCacheKey on its own: applied to a string of up to MaxSanitizeLen
\* characters (a letter, the underscore, a blank, a tab, a character outside
\* the class) and to its own result; routes is the string here
MaxSanitizeLen == 4

SanitizeInit ==
    /\ routes \in StringsUpTo({"a", "_", " ", "\t", "#"}, MaxSanitizeLen)
    /\ resolved = <<>>
    /\ RLInit /\ CacheIdle /\ SideIdle
    /\ client = [type |-> "global", identifier |-> <<"1">>]

Sanitize ==
    /\ resolved = <<>>
    /\ resolved' = [ out   |-> sanitizeCacheKey(routes),
                     again |-> sanitizeCacheKey(sanitizeCacheKey(routes)) ]
    /\ UNCHANGED <<routes, rlvars, cachevars, sidevars>>

SanitizeSpec == SanitizeInit /\ [][Sanitize]_vars

(***************************************************************************)
(* The spellings of one route: the second path is the first one respelled  *)
(* by changing the case of a letter or by adding and removing slashes next *)
(* to a slash or at the ends                                               *)
(***************************************************************************)
InsertAt(s, i, c) == SubSeq(s, 1, i) \o <<c>> \o SubSeq(s, i + 1, Len(s))
RemoveAt(s, i) == SubSeq(s, 1, i - 1) \o SubSeq(s, i + 1, Len(s))

SwapCase(c) ==
    IF c \in Range(UpperLetters) THEN LowerChar(c)
    ELSE IF c \in Range(LowerLetters)
    THEN UpperLetters[CHOOSE i \in 1..Len(LowerLetters) : LowerLetters[i] = c]
    ELSE c

\* a slash put after position i lengthens a run of slashes or stands at an end
SlashFitsAt(s, i) ==
    IF i = 0 \/ i = Len(s) THEN TRUE
    ELSE s[i] = "/" \/ s[i + 1] = "/"

\* the slash at position i is one of a run, or the first or last character
SlashSpare(s, i) ==
    /\ s[i] = "/"
    /\ IF i = 1 \/ i = Len(s) THEN TRUE
       ELSE s[i - 1] = "/" \/ s[i + 1] = "/"

Respelled(path) ==
    /\ routes' = <<routes[1], path>>
    /\ resolved' = [ idA |-> resolved.idA, idB |-> resolved.idB,
                     keyA |-> resolved.keyA,
                     keyB |-> ResolvedKey(resolved.idB, path) ]
    /\ UNCHANGED <<rlvars, cachevars, sidevars>>

ChangeCase ==
    \E i \in 1..Len(routes[2]) :
        /\ SwapCase(routes[2][i]) # routes[2][i]
        /\ Respelled([routes[2] EXCEPT ![i] = SwapCase(@)])

AddSlash ==
    \E i \in 0..Len(routes[2]) :
        /\ Len(routes[2]) < MaxSpellingLen
        /\ SlashFitsAt(routes[2], i)
        /\ Respelled(InsertAt(routes[2], i, "/"))

DropSlash ==
    \E i \in 1..Len(routes[2]) :
        /\ SlashSpare(routes[2], i)
        /\ Respelled(RemoveAt(routes[2], i))

SpellingInit ==
    /\ \E path \in StringsUpTo(PathChars, MaxSpellingLen) : routes = <<path, path>>
    /\ \E id \in ClientIds :
            resolved = [ idA |-> id, idB |-> id,
                         keyA |-> ResolvedKey(id, routes[1]),
                         keyB |-> ResolvedKey(id, routes[2]) ]
    /\ RLInit /\ CacheIdle /\ SideIdle
    /\ client = [type |-> "global", identifier |-> <<"1">>]

SpellingNext == ChangeCase \/ AddSlash \/ DropSlash

SpellingSpec == SpellingInit /\ [][SpellingNext]_vars

(***************************************************************************)
(* The response cache: middlewares/cache (cacheMiddleware), the            *)
(* invalidation middlewares with cacheHandler, and services/cache          *)
(***************************************************************************)
\* `ttl` of cacheMiddleware in seconds (30 and 10 at the call sites, 60 by
\* default), scaled down
CacheTtl == 1

\* `prefix` of the call sites: a namespace and one nested in it
Namespaces == {<<"u">>, <<"u", ":", "v">>}

\* req.originalUrl of the requests
Urls == {<<"/", "a">>, <<"/", "b">>}

Clients == {"c1", "c2"}

\* the two cache services of the repository: the one whose clearCacheByPrefix
\* scans the store and the one whose clearCacheByPrefix is left to be done
Services == {"scan", "todo"}

\* what a handler answers: the body tells the client and the URL it is for
HandlerBody(c, url) == [client |-> c, url |-> url]
NoBody == [client |-> "none", url |-> <<>>]

\* an entry of the cache is the CachedResponse with the TTL of its key and
\* the prefix setCache was called with; NoEntry is the absent key (null)
NoEntry == [statusCode |-> 0, body |-> NoBody, ttl |-> 0, prefix |-> <<>>]

\* a faulty variant: every status code counts as a success
IsSuccess_any(statusCode) == TRUE

\* res.statusCode >= 200 && res.statusCode < 300
IsSuccess(statusCode) == statusCode >= 200 /\ statusCode < 300

\* a faulty variant: a cached response is not recognised
IsHit_never(cached) == FALSE

\* if (cachedData)
IsHit(cached) == cached # NoEntry

\* const cacheKey = keyBuilder ? keyBuilder(req) : req.originalUrl, with no
\* keyBuilder at the call sites
cacheKeyOf(url) == url

\* cachedData.statusCode || 200
HitStatus(cached) == IF cached.statusCode = 0 THEN 200 ELSE cached.statusCode

\* the keys of the cache in the store, and a counter of the rate limiter
CacheKeys == {buildCacheKey(ns, cacheKeyOf(url)) : ns \in Namespaces, url \in Urls}
CounterKey == KeyOf("global", <<"1">>, <<"/", "p">>)

\* getCache: null without prefix or key, and when the store fails
getCache(s, prefix, key, ok) ==
    IF prefix = <<>> \/ key = <<>> \/ ~ok THEN NoEntry
    ELSE s[buildCacheKey(prefix, key)]

\* setCache: setKey(fullKey, JSON.stringify(value), ttl), failures swallowed
setCache(s, prefix, key, value, ttl, ok) ==
    IF prefix = <<>> \/ key = <<>> \/ ~ok THEN s
    ELSE [s EXCEPT ![buildCacheKey(prefix, key)] =
              [statusCode |-> value.statusCode, body |-> value.body,
               ttl |-> ttl, prefix |-> prefix]]

\* delKeys(keys) on the cache's part of the store
delKeys(s, keys) == [k \in DOMAIN s |-> IF k \in keys THEN NoEntry ELSE s[k]]

\* delKeys(keys) on the counters of the store
delCounters(s, keys) == [k \in DOMAIN s |-> IF k \in keys THEN Absent ELSE s[k]]

\* deleteCache: delKey(fullKey), failures swallowed
deleteCache(s, prefix, key, ok) ==
    IF prefix = <<>> \/ key = <<>> \/ ~ok THEN s
    ELSE delKeys(s, {buildCacheKey(prefix, key)})

\* deleteCacheBatch: delKeys(keys.map(buildCacheKey)), failures swallowed, the
\* error of buildCacheKey for an empty key among them
deleteCacheBatch(s, prefix, keys, ok) ==
    IF prefix = <<>> \/ keys = {} \/ <<>> \in keys \/ ~ok THEN s
    ELSE delKeys(s, {buildCacheKey(prefix, key) : key \in keys})

\* the service without guards calls buildCacheKey before its try block: the
\* error of buildCacheKey rejects the promise the function returns
Rejects(service, prefix, key) ==
    service = "todo" /\ buildCacheKey(prefix, key) = InvalidKey

IsPrefix(a, b) == Len(a) <= Len(b) /\ SubSeq(b, 1, Len(a)) = a

\* scanKeys(pattern) for a pattern that ends in its only *: the keys of the
\* store, whatever they belong to, that begin with the rest of the pattern
scanKeys(s, counters, pattern) ==
    LET stem == SubSeq(pattern, 1, Len(pattern) - 1)
    IN {k \in DOMAIN s : s[k] # NoEntry /\ IsPrefix(stem, k)}
        \cup {k \in DOMAIN counters : counters[k] # Absent /\ IsPrefix(stem, k)}

\* const pattern = `${prefix}:*`
ClearPattern(prefix) == prefix \o <<":", "*">>

\* res.locals.cacheInvalidate as the invalidation middlewares set it
NoInvalidate == [prefix |-> <<>>, keys |-> {}, clearAll |-> FALSE]
invalidateCache(prefix, url) ==
    [prefix |-> prefix, keys |-> {cacheKeyOf(url)}, clearAll |-> FALSE]
invalidateMultipleCache(prefix, keys) ==
    [prefix |-> prefix, keys |-> keys, clearAll |-> FALSE]
invalidateCacheByPrefix(prefix) ==
    [prefix |-> prefix, keys |-> {}, clearAll |-> TRUE]

\* what a mutating route may declare
Invalidations(url) ==
    UNION { {invalidateCache(ns, url), invalidateMultipleCache(ns, Urls),
             invalidateCacheByPrefix(ns)} : ns \in Namespaces }

IdleCacheReq ==
    [ pc |-> "idle", method |-> "none", client |-> "none", url |-> <<>>,
      prefix |-> <<>>, cacheInfo |-> FALSE, cacheInvalidate |-> NoInvalidate,
      xcache |-> "none", statusCode |-> 0, body |-> NoBody, handler |-> FALSE,
      due |-> "no", age |-> 0,
      deleted |-> {}, owned |-> {}, failedOp |-> FALSE,
      declared |-> {}, executed |-> {} ]

\* the store operations a response sets off
SetOp(p, r, statusCode) ==
    [ p |-> p, op |-> "set", prefix |-> r.prefix, key |-> cacheKeyOf(r.url),
      value |-> [statusCode |-> statusCode, body |-> HandlerBody(r.client, r.url)],
      phase |-> "call", keys |-> {} ]
DelOp(p, prefix, key) ==
    [ p |-> p, op |-> "del", prefix |-> prefix, key |-> key,
      value |-> [statusCode |-> 0, body |-> NoBody], phase |-> "call", keys |-> {} ]
ClearOp(p, prefix) ==
    [ p |-> p, op |-> "clear", prefix |-> prefix, key |-> <<>>,
      value |-> [statusCode |-> 0, body |-> NoBody], phase |-> "call", keys |-> {} ]

\* a faulty variant: the status code is not looked at
ShouldInvalidate_always(info, statusCode) == info # NoInvalidate

\* if (invalidateInfo && res.statusCode >= 200 && res.statusCode < 300)
ShouldInvalidate(info, statusCode) == info # NoInvalidate /\ IsSuccess(statusCode)

\* handleInvalidation: clearCacheByPrefix, or a deleteCache for every key
handleInvalidation(p, info) ==
    IF info.clearAll THEN {ClearOp(p, info.prefix)}
    ELSE {DelOp(p, info.prefix, key) : key \in info.keys}

\* a GET that found nothing was answered with a 2xx code, its setCache has
\* not failed, and nothing was invalidated and no TTL has passed since
FreshAnswer(r) ==
    /\ r.method = "GET" /\ r.handler /\ IsSuccess(r.statusCode)
    /\ r.pc \in {"pending", "done"}
    /\ ~r.failedOp /\ r.age < CacheTtl

\* what went before a GET of (prefix, url) whose lookup the store answers:
\* "stored" when the setCache of such an answer has reached the store,
\* "sent" when such an answer was sent and its setCache is still under way
Due(p, prefix, url, ok) ==
    LET answers == {q \in Reqs \ {p} :
                        /\ FreshAnswer(creq[q])
                        /\ creq[q].prefix = prefix /\ creq[q].url = url}
    IN IF ~ok \/ answers = {} THEN "no"
       ELSE IF \E q \in answers : creq[q].pc = "done" THEN "stored"
       ELSE "sent"

\* the cache's keys of namespace prefix that the store holds
OwnedKeys(s, prefix) == {k \in DOMAIN s : s[k] # NoEntry /\ s[k].prefix = prefix}

\* a call of the cache service: its arguments, whether the store answers
\* (ok), whether the promise is rejected, what it resolves to (an entry, a
\* number or undefined) and whether the store has changed
NoCall ==
    [ fn |-> "none", prefix |-> <<>>, keys |-> {}, ok |-> TRUE,
      raised |-> FALSE, entry |-> NoEntry, count |-> 0, void |-> TRUE,
      changed |-> FALSE ]

\* no request has come yet; the store holds a counter of the rate limiter
CacheIdleRequests ==
    /\ creq = [p \in Reqs |-> IdleCacheReq]
    /\ call = NoCall
    /\ ops = {}
    /\ client = [type |-> "global", identifier |-> <<"1">>]
    /\ store = [k \in ClientKeys(client) |-> [count |-> 1, ttl |-> WindowSec]]
    /\ win = [k \in ClientKeys(client) |-> NewWindow]
    /\ req = [p \in Reqs |-> IdleReq]
    /\ KeyIdle /\ SideIdle

\* the entries of different keys are separate entries of the store, so a run
\* about the GETs follows the requests to one URL of one call site of
\* cacheMiddleware, on a store that holds no response yet
CacheInit ==
    /\ kv = [k \in CacheKeys |-> NoEntry]
    /\ build \in [service : {"scan"}, prefix : Namespaces, url : Urls]
    /\ CacheIdleRequests

cacheframe == <<req, win, client, keyvars, build, call, sidevars>>

\* cacheMiddleware on a GET: the cached response, or next() with the
\* interceptor of res.json installed
cacheMiddleware(p, c, url, prefix, ok) ==
    /\ creq[p].pc \in {"idle", "done", "closed"}
    /\ LET cached == getCache(kv, prefix, cacheKeyOf(url), ok)
           arrived == [IdleCacheReq EXCEPT
                         !.method = "GET", !.client = c, !.url = url,
                         !.prefix = prefix, !.due = Due(p, prefix, url, ok)]
       IN creq' = [creq EXCEPT ![p] =
              IF IsHit(cached)
              THEN [arrived EXCEPT !.pc = "done", !.xcache = "HIT",
                                   !.statusCode = HitStatus(cached),
                                   !.body = cached.body]
              ELSE [arrived EXCEPT !.pc = "handler", !.xcache = "MISS",
                                   !.cacheInfo = TRUE]]
    /\ UNCHANGED <<kv, ops, store, cacheframe>>

\* cacheMiddleware on a request that is not a GET, or that skipCache tells
\* to leave alone: next() at once, no lookup and nothing installed
cacheMiddlewareSkips(p, c, url, prefix, method, skip) ==
    /\ creq[p].pc \in {"idle", "done", "closed"}
    /\ method # "GET" \/ skip
    /\ creq' = [creq EXCEPT ![p] =
            [IdleCacheReq EXCEPT !.pc = "handler", !.method = method,
                                 !.client = c, !.url = url, !.prefix = prefix]]
    /\ UNCHANGED <<kv, ops, store, cacheframe>>

\* a mutating request passes an invalidation middleware
Mutate(p, c, url, info) ==
    /\ creq[p].pc \in {"idle", "done", "closed"}
    /\ creq' = [creq EXCEPT ![p] =
            [IdleCacheReq EXCEPT !.pc = "handler", !.method = "POST",
                                 !.client = c, !.url = url,
                                 !.prefix = info.prefix,
                                 !.cacheInvalidate = info,
                                 !.declared = {info}]]
    /\ UNCHANGED <<kv, ops, store, cacheframe>>

\* the invalidation middlewares one route may stack
MaxLayers == 2

\* the request passes one more invalidation middleware before its handler:
\* res.locals.cacheInvalidate = { prefix, ... }
Declare(p, info) ==
    /\ creq[p].pc = "handler" /\ creq[p].method = "POST"
    /\ Cardinality(creq[p].declared) < MaxLayers
    /\ creq' = [creq EXCEPT ![p] =
            [@ EXCEPT !.prefix = info.prefix,
                      !.cacheInvalidate = info,
                      !.declared = @ \cup {info}]]
    /\ UNCHANGED <<kv, ops, store, cacheframe>>

\* the handler answers through res.json: the response is cached and the
\* declared invalidation is run when the status code is a 2xx one; neither
\* is awaited
json(p, statusCode) ==
    /\ creq[p].pc = "handler"
    /\ LET r == creq[p]
           fill == IF r.cacheInfo /\ IsSuccess(statusCode)
                   THEN {SetOp(p, r, statusCode)} ELSE {}
           inval == IF ShouldInvalidate(r.cacheInvalidate, statusCode)
                    THEN handleInvalidation(p, r.cacheInvalidate) ELSE {}
       IN /\ ops' = ops \cup fill \cup inval
          /\ creq' = [q \in Reqs |->
                IF q = p
                THEN [r EXCEPT !.pc = IF fill \cup inval = {} THEN "done" ELSE "pending",
                               !.statusCode = statusCode,
                               !.body = HandlerBody(r.client, r.url),
                               !.handler = TRUE,
                               !.executed = IF inval = {} THEN {}
                                            ELSE {r.cacheInvalidate}]
                ELSE IF inval # {} /\ creq[q].handler
                     THEN [creq[q] EXCEPT !.age = CacheTtl]
                ELSE creq[q]]
    /\ UNCHANGED <<kv, store, cacheframe>>

\* an operation of request o.p is over
Settled(o, ok, deleted, owned) ==
    [creq EXCEPT ![o.p] =
        [@ EXCEPT !.pc = IF \E other \in ops \ {o} : other.p = o.p
                         THEN "pending" ELSE "done",
                  !.failedOp = @ \/ ~ok,
                  !.deleted = @ \cup deleted,
                  !.owned = @ \cup owned]]

\* the setKey of a setCache reaches the store
setCacheLands(o, ok) ==
    /\ o.op = "set"
    /\ kv' = setCache(kv, o.prefix, o.key, o.value, CacheTtl, ok)
    /\ ops' = ops \ {o}
    /\ creq' = Settled(o, ok, {}, {})
    /\ UNCHANGED <<store, cacheframe>>

\* the delKey of a deleteCache reaches the store
deleteCacheLands(o, ok) ==
    /\ o.op = "del"
    /\ kv' = deleteCache(kv, o.prefix, o.key, ok)
    /\ ops' = ops \ {o}
    /\ creq' = Settled(o, ok, IF ok THEN {buildCacheKey(o.prefix, o.key)} ELSE {},
                       {buildCacheKey(o.prefix, o.key)})
    /\ UNCHANGED <<store, cacheframe>>

\* clearCacheByPrefix is called: one service scans the store for the pattern
\* and goes on to delete what it found, the other one does nothing
clearCacheByPrefix(o, ok) ==
    /\ o.op = "clear" /\ o.phase = "call"
    /\ LET found == IF build.service = "scan" /\ ok
                    THEN scanKeys(kv, store, ClearPattern(o.prefix)) ELSE {}
           owned == OwnedKeys(kv, o.prefix)
       IN IF found = {}
          THEN /\ ops' = ops \ {o}
               /\ creq' = Settled(o, ok, {}, owned)
          ELSE /\ ops' = (ops \ {o}) \cup {[o EXCEPT !.phase = "delete", !.keys = found]}
               /\ creq' = [creq EXCEPT ![o.p].owned = @ \cup owned]
    /\ UNCHANGED <<kv, store, cacheframe>>

\* the delKeys of clearCacheByPrefix reaches the store (one batch)
clearDeletes(o, ok) ==
    /\ o.op = "clear" /\ o.phase = "delete"
    /\ kv' = IF ok THEN delKeys(kv, o.keys) ELSE kv
    /\ store' = IF ok THEN delCounters(store, o.keys) ELSE store
    /\ ops' = ops \ {o}
    /\ creq' = Settled(o, ok, IF ok THEN o.keys ELSE {}, {})
    /\ UNCHANGED cacheframe

\* a second passes: the TTL of every entry goes down, an entry at 0 is gone
CacheTick ==
    /\ kv' = [k \in DOMAIN kv |->
                IF kv[k].ttl <= 1 THEN NoEntry ELSE [kv[k] EXCEPT !.ttl = @ - 1]]
    /\ creq' = [p \in Reqs |->
                IF creq[p].handler /\ creq[p].age < CacheTtl
                THEN [creq[p] EXCEPT !.age = @ + 1] ELSE creq[p]]
    /\ UNCHANGED <<ops, store, cacheframe>>

Get(p) ==
    \E c \in Clients, ok \in BOOLEAN :
        cacheMiddleware(p, c, build.url, build.prefix, ok)

Post(p) ==
    \E url \in Urls : \E info \in Invalidations(url) : Mutate(p, "c1", url, info)

Answer(p) == \E statusCode \in StatusCodes : json(p, statusCode)

\* a GET and an identical GET of the same or of another client, interleaved
Pair == {1, 2}

CacheNext ==
    \/ \E p \in Pair : Get(p)
    \/ \E p \in Pair : Answer(p)
    \/ \E o \in ops : \E ok \in BOOLEAN : setCacheLands(o, ok)
    \/ CacheTick

CacheSpec == CacheInit /\ [][CacheNext]_vars

\* a request the cache middleware lets through untouched
Bypass(p) ==
    \E c \in Clients, method \in {"GET", "POST"}, skip \in BOOLEAN :
        cacheMiddlewareSkips(p, c, build.url, build.prefix, method, skip)

\* a run about what reaches the cache: GETs, skipped GETs and other requests
\* at one call site of cacheMiddleware
ResponseCacheNext ==
    \/ \E p \in Pair : Get(p)
    \/ \E p \in Pair : Bypass(p)
    \/ \E p \in Pair : Answer(p)
    \/ \E o \in ops : \E ok \in BOOLEAN : setCacheLands(o, ok)
    \/ CacheTick

ResponseCacheSpec == CacheInit /\ [][ResponseCacheNext]_vars

\* a run about a resource that is read and changed: client c1 reads it, client
\* c2 reads it and changes it through a route that declares
\* invalidateCache(prefix) for the key the reads are cached under; the store
\* takes every deleteCache, and no TTL runs out during the run
StaleNext ==
    \/ \E ok \in BOOLEAN : cacheMiddleware(1, "c1", build.url, build.prefix, ok)
    \/ \E ok \in BOOLEAN : cacheMiddleware(2, "c2", build.url, build.prefix, ok)
    \/ Mutate(2, "c2", build.url, invalidateCache(build.prefix, build.url))
    \/ \E p \in Pair : Answer(p)
    \/ \E o \in ops : \E ok \in BOOLEAN : setCacheLands(o, ok)
    \/ \E o \in ops : deleteCacheLands(o, TRUE)

StaleSpec == CacheInit /\ [][StaleNext]_vars

\* the entry that a GET of client c1 to (prefix, url) leaves in the store
Filled(prefix, url) ==
    [statusCode |-> 200, body |-> HandlerBody("c1", url), ttl |-> CacheTtl,
     prefix |-> prefix]

\* the stores that GETs to the call sites leave behind
FilledStores ==
    { [k \in CacheKeys |->
         LET site == CHOOSE pair \in Namespaces \X Urls :
                        buildCacheKey(pair[1], cacheKeyOf(pair[2])) = k
         IN IF k \in present THEN Filled(site[1], site[2]) ELSE NoEntry]
      : present \in SUBSET CacheKeys }

\* a run about invalidation: mutating requests, one after another, on a
\* store that GETs have filled
InvalidationInit ==
    /\ kv \in FilledStores
    /\ build \in [service : Services, prefix : {<<"u">>}, url : {<<"/", "a">>}]
    /\ CacheIdleRequests

InvalidationNext ==
    \/ Post(1)
    \/ Answer(1)
    \/ \E o \in ops : \E ok \in BOOLEAN : deleteCacheLands(o, ok)
    \/ \E o \in ops : \E ok \in BOOLEAN : clearCacheByPrefix(o, ok)
    \/ \E o \in ops : \E ok \in BOOLEAN : clearDeletes(o, ok)

InvalidationSpec == InvalidationInit /\ [][InvalidationNext]_vars

\* the same, on routes that stack invalidation middlewares
Layer(p) ==
    \E url \in Urls : \E info \in Invalidations(url) : Declare(p, info)

LayersNext ==
    \/ Post(1)
    \/ Layer(1)
    \/ Answer(1)
    \/ \E o \in ops : \E ok \in BOOLEAN : deleteCacheLands(o, ok)
    \/ \E o \in ops : \E ok \in BOOLEAN : clearCacheByPrefix(o, ok)
    \/ \E o \in ops : \E ok \in BOOLEAN : clearDeletes(o, ok)

LayersSpec == InvalidationInit /\ [][LayersNext]_vars

\* the arguments the functions of the cache service are called with
PrefixArgs == Namespaces \cup {<<>>}
KeyArgs == Urls \cup {<<>>}

getCacheCall(prefix, key, ok) ==
    /\ LET raised == Rejects(build.service, prefix, key)
       IN call' = [NoCall EXCEPT
              !.fn = "getCache", !.prefix = prefix, !.keys = {key}, !.ok = ok,
              !.raised = raised, !.void = FALSE,
              !.entry = IF raised THEN NoEntry ELSE getCache(kv, prefix, key, ok)]
    /\ UNCHANGED <<kv, creq, ops, build, store, req, win, client, keyvars, sidevars>>

setCacheCall(prefix, key, ok) ==
    /\ LET raised == Rejects(build.service, prefix, key)
           value == [statusCode |-> 200, body |-> HandlerBody("c2", key)]
       IN /\ kv' = IF raised THEN kv
                   ELSE setCache(kv, prefix, key, value, CacheTtl, ok)
          /\ call' = [NoCall EXCEPT
                 !.fn = "setCache", !.prefix = prefix, !.keys = {key}, !.ok = ok,
                 !.raised = raised, !.changed = kv' # kv]
    /\ UNCHANGED <<creq, ops, build, store, req, win, client, keyvars, sidevars>>

deleteCacheCall(prefix, key, ok) ==
    /\ LET raised == Rejects(build.service, prefix, key)
       IN /\ kv' = IF raised THEN kv ELSE deleteCache(kv, prefix, key, ok)
          /\ call' = [NoCall EXCEPT
                 !.fn = "deleteCache", !.prefix = prefix, !.keys = {key},
                 !.ok = ok, !.raised = raised, !.changed = kv' # kv]
    /\ UNCHANGED <<creq, ops, build, store, req, win, client, keyvars, sidevars>>

\* only the service that scans has a deleteCacheBatch
deleteCacheBatchCall(prefix, keys, ok) ==
    /\ build.service = "scan"
    /\ kv' = deleteCacheBatch(kv, prefix, keys, ok)
    /\ call' = [NoCall EXCEPT
           !.fn = "deleteCacheBatch", !.prefix = prefix, !.keys = keys,
           !.ok = ok, !.changed = kv' # kv]
    /\ UNCHANGED <<creq, ops, build, store, req, win, client, keyvars, sidevars>>

\* clearCacheByPrefix as a whole: one service returns the number of keys it
\* has deleted, or 0; the other one logs and returns nothing
clearCacheByPrefixCall(prefix, ok) ==
    /\ LET found == IF build.service = "scan" /\ ok /\ prefix # <<>>
                    THEN scanKeys(kv, store, ClearPattern(prefix)) ELSE {}
       IN /\ kv' = delKeys(kv, found)
          /\ store' = delCounters(store, found)
          /\ call' = [NoCall EXCEPT
                 !.fn = "clearCacheByPrefix", !.prefix = prefix, !.ok = ok,
                 !.void = build.service = "todo",
                 !.count = Cardinality(found), !.changed = found # {}]
    /\ UNCHANGED <<creq, ops, build, req, win, client, keyvars, sidevars>>

\* a run about the cache service: its functions called one after another, with
\* any arguments, on a store that GETs have filled
ServiceInit ==
    /\ kv \in FilledStores
    /\ build \in [service : Services, prefix : {<<"u">>}, url : {<<"/", "a">>}]
    /\ CacheIdleRequests

ServiceNext ==
    \/ \E prefix \in PrefixArgs, key \in KeyArgs, ok \in BOOLEAN :
            getCacheCall(prefix, key, ok)
    \/ \E prefix \in PrefixArgs, key \in KeyArgs, ok \in BOOLEAN :
            setCacheCall(prefix, key, ok)
    \/ \E prefix \in PrefixArgs, key \in KeyArgs, ok \in BOOLEAN :
            deleteCacheCall(prefix, key, ok)
    \/ \E prefix \in PrefixArgs, keys \in SUBSET KeyArgs, ok \in BOOLEAN :
            deleteCacheBatchCall(prefix, keys, ok)
    \/ \E prefix \in PrefixArgs, ok \in BOOLEAN : clearCacheByPrefixCall(prefix, ok)

ServiceSpec == ServiceInit /\ [][ServiceNext]_vars

\* a faulty variant: the response is cached when the connection closes
CloseOps_fill(p, r) == IF r.cacheInfo THEN {SetOp(p, r, 200)} ELSE {}

\* the store operations that the end of a connection sets off: no middleware
\* listens to 'close' or 'finish', the interceptors run from res.json and
\* res.send only
CloseOps(p, r) == {}

\* the client disconnects while the handler is at work and the handler never
\* answers: the request has passed the rate limiter and the cache middlewares
Disconnect(p) ==
    /\ req[p].pc = "handler" \/ creq[p].pc = "handler"
    /\ req' = [req EXCEPT ![p].pc = IF @ = "handler" THEN "closed" ELSE @]
    /\ creq' = [creq EXCEPT ![p].pc = IF @ = "handler" THEN "closed" ELSE @]
    /\ ops' = ops \cup CloseOps(p, creq[p])
    /\ UNCHANGED <<store, win, client, keyvars, kv, build, call, sidevars>>

\* a run about requests that are given up: one request after another passes
\* the rate limiter of the auth policy and a cache middleware
DisconnectInit ==
    /\ client = [type |-> "auth", identifier |-> <<"1">>]
    /\ store = [k \in ClientKeys(client) |-> Absent]
    /\ win = [k \in ClientKeys(client) |-> NewWindow]
    /\ req = [p \in Reqs |-> IdleReq]
    /\ KeyIdle /\ SideIdle
    /\ kv = [k \in CacheKeys |-> NoEntry]
    /\ build \in [service : {"scan"}, prefix : {<<"u">>}, url : Urls]
    /\ creq = [p \in Reqs |-> IdleCacheReq]
    /\ ops = {}
    /\ call = NoCall

DisconnectNext ==
    \/ Arrive(1)
    \/ RespondAny(1)
    \/ \E ok \in BOOLEAN : Increment(1, ok)
    \/ Tick
    \/ Get(1)
    \/ Post(1)
    \/ Answer(1)
    \/ \E o \in ops : \E ok \in BOOLEAN : setCacheLands(o, ok)
    \/ \E o \in ops : \E ok \in BOOLEAN : deleteCacheLands(o, ok)
    \/ \E o \in ops : \E ok \in BOOLEAN : clearCacheByPrefix(o, ok)
    \/ \E o \in ops : \E ok \in BOOLEAN : clearDeletes(o, ok)
    \/ Disconnect(1)

DisconnectSpec == DisconnectInit /\ [][DisconnectNext]_vars

(***************************************************************************)
(* Properties of the rate limiter                                          *)
(***************************************************************************)
(* The PKCE challenges of the OAuth flow                                   *)
(***************************************************************************)
\* the servers' calls of consumePKCEChallenge that overlap, and the times a
\* challenge is stored under one state
NumCallers == 2
MaxStores == 2
Callers == 1..NumCallers

\* the `state` values of the flows and the code challenges
PkceStates == {"s1", "s2"}
Challenges == {"x", "y"}

\* the reply of GET for a key that is not there, and what the call returns
NoData == "null"

IdleConsume == [pc |-> "idle", state |-> "none", got |-> NoData, result |-> NoData]

\* everything but the PKCE store and the HTTP client is at rest
ServerIdle ==
    /\ RLInit /\ client = [type |-> "global", identifier |-> <<"1">>]
    /\ KeyIdle /\ CacheIdle

PkceInit ==
    /\ pkce = [ data |-> [s \in PkceStates |-> NoData],
                stored |-> [s \in PkceStates |-> 0],
                returned |-> [s \in PkceStates |-> 0],
                call |-> [c \in Callers |-> IdleConsume] ]
    /\ http = <<>>
    /\ ServerIdle

pkceframe == <<rlvars, keyvars, cachevars, http>>

\* storePKCEChallenge: redisClient.setex(`pkce:${state}`, ttl, data)
storePKCEChallenge(state, codeChallenge) ==
    /\ pkce.stored[state] < MaxStores
    /\ pkce' = [pkce EXCEPT !.data[state] = codeChallenge,
                            !.stored[state] = @ + 1]
    /\ UNCHANGED pkceframe

\* the TTL of the key runs out
pkceExpires(state) ==
    /\ pkce.data[state] # NoData
    /\ pkce' = [pkce EXCEPT !.data[state] = NoData]
    /\ UNCHANGED pkceframe

\* consumePKCEChallenge: the pipeline of get(key) and del(key) is sent
consumePKCEChallenge(c, state) ==
    /\ pkce.call[c].pc \in {"idle", "done"}
    /\ pkce' = [pkce EXCEPT !.call[c] =
                    [IdleConsume EXCEPT !.pc = "get", !.state = state]]
    /\ UNCHANGED pkceframe

\* the store runs the GET of the pipeline; a pipeline is not a transaction,
\* the commands of other connections may run between its commands
pipelineGet(c) ==
    /\ pkce.call[c].pc = "get"
    /\ pkce' = [pkce EXCEPT !.call[c].pc = "del",
                            !.call[c].got = pkce.data[pkce.call[c].state]]
    /\ UNCHANGED pkceframe

\* the store runs the DEL of the pipeline and exec() resolves: null when
\* results[0][1] is empty, the parsed data otherwise
pipelineDel(c) ==
    /\ pkce.call[c].pc = "del"
    /\ LET k == pkce.call[c]
       IN pkce' = [pkce EXCEPT
                      !.data[k.state] = NoData,
                      !.call[c].pc = "done",
                      !.call[c].result = k.got,
                      !.returned[k.state] = IF k.got = NoData THEN @ ELSE @ + 1]
    /\ UNCHANGED pkceframe

PkceNext ==
    \/ \E state \in PkceStates, codeChallenge \in Challenges :
            storePKCEChallenge(state, codeChallenge)
    \/ \E state \in PkceStates : pkceExpires(state)
    \/ \E c \in Callers, state \in PkceStates : consumePKCEChallenge(c, state)
    \/ \E c \in Callers : pipelineGet(c)
    \/ \E c \in Callers : pipelineDel(c)

PkceSpec == PkceInit /\ [][PkceNext]_vars

(***************************************************************************)
(* The frontend HTTP client: token refresh                                 *)
(***************************************************************************)
\* the requests of the page that overlap
NumCalls == 2
Calls == 1..NumCalls

\* url.includes("/auth/login" | "/auth/refresh" | "/auth/google/callback")
\* holds for "auth" and not for "api"
UrlKinds == {"api", "auth"}

\* the error responses: 401, another status, and no response (status null)
ErrorStatus == {401, 500, 0}

IdleCall == [pc |-> "idle", url |-> "none", retry |-> FALSE, status |-> 0,
             logout |-> FALSE]

\* let isRefreshing = false; let failedQueue = []
HttpInit ==
    /\ http = [ isRefreshing |-> FALSE, failedQueue |-> <<>>,
                request |-> [i \in Calls |-> IdleCall] ]
    /\ pkce = <<>>
    /\ ServerIdle

httpframe == <<rlvars, keyvars, cachevars, pkce>>

\* a faulty variant: a 401 never waits for the refresh that is under way
ShouldQueue_never(isRefreshing) == FALSE

\* if (isRefreshing)
ShouldQueue(isRefreshing) == isRefreshing

\* status === 401 && !originalRequest._retry
TriesRefresh(r, status) == status = 401 /\ ~r.retry

\* Axios(config): a request of the page goes out
Request(i, url) ==
    /\ http.request[i].pc \in {"idle", "resolved", "rejected"}
    /\ http' = [http EXCEPT !.request[i] =
                    [IdleCall EXCEPT !.pc = "sent", !.url = url]]
    /\ UNCHANGED httpframe

\* the response interceptor on a response: it is handed on
onFulfilled(i) ==
    /\ http.request[i].pc = "sent"
    /\ http' = [http EXCEPT !.request[i].pc = "resolved",
                            !.request[i].status = 200]
    /\ UNCHANGED httpframe

\* the response interceptor on an error, up to the await of the refresh:
\* an auth endpoint logs out, a 401 during a refresh is put on failedQueue,
\* another first 401 starts the refresh, everything else is rejected
onRejected(i, status) ==
    /\ http.request[i].pc = "sent"
    /\ LET r == [http.request[i] EXCEPT !.status = status]
       IN IF ~TriesRefresh(r, status)
          THEN http' = [http EXCEPT !.request[i] = [r EXCEPT !.pc = "rejected"]]
          ELSE IF r.url = "auth"
          THEN http' = [http EXCEPT !.request[i] =
                            [r EXCEPT !.pc = "rejected", !.logout = TRUE]]
          ELSE IF ShouldQueue(http.isRefreshing)
          THEN http' = [http EXCEPT !.failedQueue = Append(@, i),
                                    !.request[i] = [r EXCEPT !.pc = "queued"]]
          ELSE http' = [http EXCEPT !.isRefreshing = TRUE,
                                    !.request[i] = [r EXCEPT !.pc = "refresh",
                                                             !.retry = TRUE]]
    /\ UNCHANGED httpframe

\* processQueue(error): every queued promise is resolved, which sends its
\* request again, or rejected; failedQueue = []
processQueue(h, failed) ==
    [h EXCEPT !.failedQueue = <<>>,
              !.request = [j \in Calls |->
                  IF \E n \in 1..Len(h.failedQueue) : h.failedQueue[n] = j
                  THEN [h.request[j] EXCEPT !.pc = IF failed THEN "rejected"
                                                   ELSE "sent"]
                  ELSE h.request[j]]]

\* refreshAccessToken() settles: isRefreshing = false, processQueue, and the
\* request that started it is sent again or rejected with a logout
refreshSettles(i, refreshSuccess) ==
    /\ http.request[i].pc = "refresh"
    /\ LET h == processQueue([http EXCEPT !.isRefreshing = FALSE], ~refreshSuccess)
       IN http' = [h EXCEPT !.request[i].pc =
                                IF refreshSuccess THEN "sent" ELSE "rejected",
                            !.request[i].logout = ~refreshSuccess]
    /\ UNCHANGED httpframe

HttpNext ==
    \/ \E i \in Calls, url \in UrlKinds : Request(i, url)
    \/ \E i \in Calls : onFulfilled(i)
    \/ \E i \in Calls, status \in ErrorStatus : onRejected(i, status)
    \/ \E i \in Calls, refreshSuccess \in BOOLEAN : refreshSettles(i, refreshSuccess)

HttpSpec == HttpInit /\ [][HttpNext]_vars

(***************************************************************************)
Standard(r) == r.type \in RateLimitTypes /\ ~rateLimitConfig[r.type].skipSuccessfulRequests
CountOnFailure(r) == r.type \in RateLimitTypes /\ rateLimitConfig[r.type].skipSuccessfulRequests
Decided(r) == r.outcome # "none"
LimitOf(r) == rateLimitConfig[r.type].max

\* C1: sequential requests of one client on one route under a standard policy
\* with limit N, no store operation failing: a request is allowed exactly when
\* fewer than N requests were counted before it in the window (the first N are
\* allowed, the (N+1)-th and every later one get the 429 of the policy); the
\* count starts again when the key has expired.
C1_CountingCorrectness ==
    \A p \in Reqs :
        LET r == req[p] IN
        (Standard(r) /\ Decided(r) /\ r.outcome # "500" /\ r.clean) =>
            /\ r.outcome = "next" <=> r.prior < LimitOf(r)
            /\ r.outcome # "next" => (r.outcome = "429" /\ r.message = "policy")

\* the (N+1)-th request of a window has been denied
C1_Witness ==
    \E p \in Reqs :
        /\ Standard(req[p]) /\ req[p].clean
        /\ req[p].outcome = "429" /\ req[p].prior = LimitOf(req[p])

\* C2: under any interleaving of standard-policy requests on one key, once all
\* of them have completed inside one window (no store operation failing), the
\* stored count equals the number of requests admitted and counted in it.
C2_NoLostCount ==
    \A k \in DOMAIN store :
        ( /\ ~rateLimitConfig[client.type].skipSuccessfulRequests
          /\ \A p \in Reqs : req[p].pc \in {"idle", "done"}
          /\ store[k] # Absent
          /\ ~win[k].fault )
        => store[k].count = win[k].counted

C4_StoreFailurePolicy ==
    \A p \in Reqs :
        LET r == req[p] IN
        r.failed = "check" =>
            IF rateLimitConfig[r.type].failClosed
            THEN /\ r.outcome = "429" /\ r.pc = "done" /\ r.statusCode = 0
                 /\ r.retryAfter = rateLimitConfig[r.type].windowMs \div 1000
            ELSE r.outcome = "next"

\* a failed check has been denied under a fail-closed policy
C4_Witness ==
    \E p \in Reqs :
        /\ req[p].failed = "check" /\ rateLimitConfig[req[p].type].failClosed
        /\ req[p].outcome = "429"

\* C10 as claimed: without a client identifier a fail-closed policy denies the
\* request outright (no handler, no counter read or written) and a policy
\* with failClosed unset allows it.
C10_AsClaimed ==
    \A p \in Reqs :
        LET r == req[p] IN
        (Decided(r) /\ r.identifier = Unknown) =>
            IF rateLimitConfig[r.type].failClosed
            THEN r.outcome # "next" /\ r.reads = 0 /\ r.writes = 0
            ELSE r.outcome = "next"

\* C10 as amended: without a client identifier a fail-closed policy denies the
\* request outright (no handler, no counter read or written); a policy with
\* failClosed unset rate-limits it under the shared identifier 'unknown': it is
\* denied with 429 exactly when the counter read for that identifier has
\* reached the limit, and allowed otherwise.
C10_UnidentifiedClient ==
    \A p \in Reqs :
        LET r == req[p] IN
        (Decided(r) /\ r.identifier = Unknown) =>
            IF rateLimitConfig[r.type].failClosed
            THEN /\ r.outcome = "500" /\ r.pc = "done" /\ r.statusCode = 0
                 /\ r.reads = 0 /\ r.writes = 0
                 /\ \A k \in DOMAIN store : store[k] = Absent
            ELSE /\ \E path \in RoutePaths : r.key = KeyOf(r.type, Unknown, path)
                 /\ r.outcome \in {"next", "429"}
                 /\ r.outcome = "429" <=>
                        (r.failed # "check" /\ r.current >= LimitOf(r))

\* an unidentified request has been denied outright
C10_Witness ==
    \E p \in Reqs :
        /\ req[p].identifier = Unknown /\ rateLimitConfig[req[p].type].failClosed
        /\ req[p].outcome = "500"

(***************************************************************************)
(* Properties of the counter keys                                          *)
(***************************************************************************)
\* the parts of a path between its slashes, empty parts left out
Segments(s) ==
    LET F[i \in 0..Len(s)] ==
            IF i = 0 THEN <<<<>>>>
            ELSE IF s[i] = "/" THEN Append(F[i-1], <<>>)
                 ELSE [F[i-1] EXCEPT ![Len(F[i-1])] = Append(@, s[i])]
    IN SelectSeq(F[Len(s)], LAMBDA part : part # <<>>)

\* two paths differ in nothing but letter case and repeated, leading or
\* trailing slashes
SlashCaseVariants(a, b) == Segments(toLowerCase(a)) = Segments(toLowerCase(b))

\* the same, with every character outside [a-z0-9/_-] read as an underscore
SameRoute(a, b) ==
    Segments(ReplaceOutside(toLowerCase(a), RouteClass))
        = Segments(ReplaceOutside(toLowerCase(b), RouteClass))

\* C7 as claimed: two requests under one policy that differ in client
\* identifier, or whose routes differ in anything other than letter case or
\* repeated/leading/trailing slashes, get different counter keys.
C7_AsClaimed ==
    resolved # <<>> =>
        ( (resolved.idA # resolved.idB \/ ~SlashCaseVariants(routes[1], routes[2]))
            => resolved.keyA # resolved.keyB )

\* C7 as amended: two requests under one policy get the same counter key
\* exactly when their client identifiers are equal and their routes are equal
\* once lower-cased, their slashes collapsed and trimmed and every character
\* outside [a-z0-9/_-] replaced by an underscore; requests of different
\* clients never share a counter.
C7_KeyIsolation ==
    resolved # <<>> =>
        ( resolved.keyA = resolved.keyB
            <=> (resolved.idA = resolved.idB /\ SameRoute(routes[1], routes[2])) )

\* two routes that differ in a special character share a counter key, and
\* the keys of two clients on one route have been told apart
C7_Witness ==
    /\ resolved # <<>>
    /\ \/ /\ resolved.idA = resolved.idB
          /\ ~SlashCaseVariants(routes[1], routes[2])
          /\ resolved.keyA = resolved.keyB
       \/ /\ resolved.idA # resolved.idB
          /\ routes[1] = routes[2] /\ routes[1] # <<>>
          /\ resolved.keyA # resolved.keyB

\* the route of a counter key is well formed
WellFormedRoute(route) ==
    /\ Range(route) \subseteq RouteClass
    /\ route # <<>> => (route[1] # "/" /\ route[Len(route)] # "/")
    /\ \A i \in 1..(Len(route) - 1) : ~(route[i] = "/" /\ route[i + 1] = "/")

\* C9: a path respelled by changes of letter case and by adding or removing
\* repeated, leading and trailing slashes keeps its counter key; the
\* normalised route has only characters of [a-z0-9/_-], no leading or
\* trailing slash and no double slash, and normalising it again changes nothing.
C9_NormalisedRoute ==
    /\ SlashCaseVariants(routes[1], routes[2])
    /\ resolved.keyA = resolved.keyB
    /\ WellFormedRoute(normalizePath(routes[2]))
    /\ normalizePath(normalizePath(routes[2])) = normalizePath(routes[2])

\* /A has been respelled as //a/
C9_Witness ==
    /\ routes = << <<"/", "A">>, <<"/", "/", "a", "/">> >>
    /\ resolved.keyA = resolved.keyB

(***************************************************************************)
(* Properties of the response cache                                        *)
(***************************************************************************)
\* C5 as claimed: a GET that arrives after an identical GET (same namespace
\* and cache key) was answered by its handler with a 2xx code, before the TTL
\* has elapsed, is answered from the cache (X-Cache: HIT, 2xx status, a body
\* for its URL) and its handler is not invoked.
C5_AsClaimed ==
    \A p \in Reqs :
        LET r == creq[p] IN
        (r.method = "GET" /\ r.due # "no") =>
            /\ r.xcache = "HIT" /\ ~r.handler
            /\ IsSuccess(r.statusCode) /\ r.body.url = r.url

\* C5 as amended: a GET whose lookup the store answers, coming after the
\* setCache of a 2xx answer to an identical GET has reached the store and
\* before the TTL has elapsed, is answered from the cache with X-Cache: HIT,
\* with the status and body of a 2xx handler answer to such a GET, and its
\* handler is not invoked; every entry of the cache is such an answer, under
\* the key built from its namespace and URL.
C5_CacheHit ==
    /\ \A p \in Reqs :
        LET r == creq[p] IN
        (r.method = "GET" /\ r.due = "stored") =>
            /\ r.xcache = "HIT" /\ r.pc = "done" /\ ~r.handler
            /\ IsSuccess(r.statusCode)
            /\ \E c \in Clients : r.body = HandlerBody(c, r.url)
    /\ \A k \in DOMAIN kv :
        kv[k] # NoEntry =>
            /\ IsSuccess(kv[k].statusCode)
            /\ kv[k].ttl \in 1..CacheTtl
            /\ buildCacheKey(kv[k].prefix, cacheKeyOf(kv[k].body.url)) = k

\* a GET has been answered from the cache after the response of an identical
\* GET was stored
C5_Witness ==
    \E p \in Reqs :
        /\ creq[p].method = "GET" /\ creq[p].due = "stored"
        /\ creq[p].xcache = "HIT" /\ creq[p].statusCode = 200

\* C6: an invalidation that has run (2xx answer, no store operation failed)
\* has deleted exactly the keys it is declared for: the keys built from the
\* namespace and the declared keys, or every key of the cache that holds an
\* entry of the namespace, and no other key of the store.
C6_InvalidationScoped ==
    \A p \in Reqs :
        LET r == creq[p] IN
        ( /\ r.method = "POST" /\ r.pc = "done"
          /\ IsSuccess(r.statusCode) /\ ~r.failedOp )
        => r.deleted = r.owned

\* C8: a response served from the cache is a response to the client and the
\* URL of the request it is served to.
C8_EntryIsolation ==
    \A p \in Reqs :
        creq[p].xcache = "HIT" => creq[p].body = HandlerBody(creq[p].client, creq[p].url)

(***************************************************************************)
(* Properties of the interceptors                                          *)
(***************************************************************************)
\* C11: a request on which the failure count is armed and whose response has
\* been finalised, through res.json, res.send or res.end, has had the armed
\* action evaluated: with a status >= 400 and no store failure the counter was
\* incremented once, never twice, and with a status < 400 not at all.
C11_ObservedOnce ==
    \A p \in Reqs :
        LET r == req[p] IN
        (r.armed /\ r.pc = "done" /\ r.outcome = "next" /\ r.failed = "none") =>
            /\ r.hasIncremented <=> r.statusCode >= 400
            /\ r.writes = (IF r.statusCode >= 400 THEN 1 ELSE 0)

\* a call that cannot do its work: the store fails, or an argument is empty
CannotWork(c) == ~c.ok \/ c.prefix = <<>> \/ c.keys = {} \/ <<>> \in c.keys

\* C12: no function of the cache service raises to its caller, whatever its
\* prefix and key arguments and whether the store fails or not; when the
\* store fails or an argument is empty getCache returns null, setCache,
\* deleteCache and deleteCacheBatch leave the store as it is, and
\* clearCacheByPrefix returns the number 0.
C12_FailSoft ==
    call.fn # "none" =>
        /\ ~call.raised
        /\ call.fn = "clearCacheByPrefix" =>
              /\ ~call.void
              /\ (~call.ok \/ call.prefix = <<>>) => (call.count = 0 /\ ~call.changed)
        /\ (call.fn # "clearCacheByPrefix" /\ CannotWork(call)) =>
              (call.entry = NoEntry /\ ~call.changed)

\* a mutating request whose handler has answered through res.json
Answered(r) == r.method = "POST" /\ r.pc \in {"pending", "done"}

\* C13: the invalidation targets that several middleware layers have declared
\* on one request accumulate: after a 2xx response every declared target has
\* been executed, none replaced or dropped by a later declaration.
C13_Accumulate ==
    \A p \in Reqs :
        (Answered(creq[p]) /\ IsSuccess(creq[p].statusCode)) =>
            creq[p].declared \subseteq creq[p].executed

\* C14: every request that the rate limiter has decided, under every policy
\* and whether it was allowed or denied, carries the headers limit, remaining
\* and reset, with remaining >= 0; a denied one also carries a Retry-After.
C14_HeadersAlways ==
    \A p \in Reqs :
        LET r == req[p] IN
        Decided(r) =>
            /\ r.headers.set
            /\ r.headers.limit = LimitOf(r)
            /\ r.headers.remaining >= 0
            /\ r.outcome # "next" => r.headers.retryAfter >= 1

C16_SameDenial ==
    \A p, q \in Reqs :
        ( /\ req[p].outcome = "429" /\ req[q].outcome = "429"
          /\ req[p].type = req[q].type
          /\ req[p].failed = "check" /\ req[q].failed = "none" ) =>
            /\ req[p].message = req[q].message
            /\ req[p].headers.set = req[q].headers.set
            /\ (req[p].retryAfter > 0) = (req[q].retryAfter > 0)

(***************************************************************************)
(* Properties of the cache keys                                            *)
(***************************************************************************)
\* C17: buildCacheKey fails with its error when the namespace or the raw key
\* is empty, and every key it returns is <namespace part>:<key part> with a
\* sanitised namespace part and a sanitised key part that are both non-empty.
C17_WellFormedKey ==
    resolved # <<>> =>
        IF routes[1] = <<>> \/ routes[2] = <<>>
        THEN resolved.keyA = InvalidKey
        ELSE /\ resolved.keyA # InvalidKey
             /\ \E i \in 2..(Len(resolved.keyA) - 1) :
                    /\ resolved.keyA[i] = ":"
                    /\ SubSeq(resolved.keyA, 1, i - 1) = sanitizeCacheKey(routes[1])
                    /\ SubSeq(resolved.keyA, i + 1, Len(resolved.keyA))
                           = sanitizeCacheKey(routes[2])

\* C18: the keys that buildCacheKey returns for two namespaces that differ
\* after sanitisation are different, whatever the raw keys are.
C18_NamespacesDisjoint ==
    ( /\ resolved # <<>>
      /\ resolved.keyA # InvalidKey /\ resolved.keyB # InvalidKey
      /\ sanitizeCacheKey(routes[1]) # sanitizeCacheKey(routes[3]) ) =>
        resolved.keyA # resolved.keyB

C21_ExceededUntilExpiry ==
    [][\A k \in DOMAIN store :
          store[k].count >= rateLimitConfig[client.type].max =>
              \/ store'[k].count >= store[k].count
              \/ store'[k] = Absent /\ store[k].ttl <= 1]_vars

\* C22: while a counter key exists no request moves its expiry time later or
\* starts its count again: from one step to the next the TTL of an existing
\* key does not go up and its count does not go down.
C22_WindowNotExtended ==
    [][\A k \in DOMAIN store :
          (store[k] # Absent /\ store'[k] # Absent) =>
              /\ store'[k].ttl <= store[k].ttl
              /\ store'[k].count >= store[k].count]_vars

\* request p is denied in this step because the count has reached the limit
DeniedNow(p) ==
    /\ req'[p] # req[p]
    /\ req'[p].outcome = "429" /\ req'[p].message = "policy"

\* C23: the step in which a request is denied because the count is at or
\* above the limit, under either policy, leaves every counter as it was (count
\* and TTL), and the denied request has no interceptor armed and goes to no
\* handler.
C23_DenyLeavesCounter ==
    [][\A p \in Reqs :
          DeniedNow(p) =>
              /\ store' = store
              /\ store[req'[p].key].count >= rateLimitConfig[req'[p].type].max
              /\ ~req'[p].armed /\ req'[p].pc = "done"
              /\ req'[p].writes = 0 /\ req'[p].inflight = 0]_vars

\* a request was denied on a counter at the limit that still stands as read
C23_Witness ==
    \E p \in Reqs :
        /\ req[p].outcome = "429" /\ req[p].message = "policy"
        /\ store[req[p].key].count = req[p].current
        /\ req[p].current >= LimitOf(req[p])

\* C24: a request denied because the limit is reached is given, as
\* retryAfter, the TTL that the counter key has left in whole seconds, and
\* 1 <= retryAfter <= ceil(windowMs / 1000); the Retry-After header carries
\* the same number.
C24_RetryAfter ==
    [][\A p \in Reqs :
          DeniedNow(p) =>
              LET r == req'[p]
                  windowMs == rateLimitConfig[r.type].windowMs
              IN /\ r.retryAfter = store[r.key].ttl
                 /\ r.retryAfter >= 1
                 /\ r.retryAfter <= (windowMs + 999) \div 1000
                 /\ r.headers.set => r.headers.retryAfter = r.retryAfter]_vars

\* a request was denied when a part of the window had passed already
C24_Witness ==
    \E p \in Reqs :
        /\ req[p].outcome = "429" /\ req[p].message = "policy"
        /\ req[p].retryAfter >= 1
        /\ req[p].retryAfter < ttlSeconds(rateLimitConfig[req[p].type].windowMs)

\* C25: for every input string the output of sanitizeCacheKey has only
\* characters of [A-Za-z0-9:/_?&=.-], no two underscores in a row and no
\* underscore at either end, and sanitizeCacheKey leaves it as it is.
C25_Sanitised ==
    resolved # <<>> =>
        LET out == resolved.out IN
        /\ \A i \in 1..Len(out) : out[i] \in CacheClass
        /\ \A i \in 1..(Len(out) - 1) : ~(out[i] = "_" /\ out[i + 1] = "_")
        /\ out # <<>> => (out[1] # "_" /\ out[Len(out)] # "_")
        /\ resolved.again = out

\* a string with blanks and underscores at its ends and in a row was sanitised
C25_Witness ==
    /\ resolved # <<>>
    /\ Len(routes) = MaxSanitizeLen
    /\ routes[1] \in Whitespace /\ routes[Len(routes)] = "_"
    /\ Len(resolved.out) = 1

\* C26: an entry of the response cache is written only by the setCache of a
\* GET that found nothing and was answered with a 2xx code, and records that
\* code and body; a request that is not a GET, a skipped one and an answer
\* with another code set off no setCache
WroteEntry(k) ==
    /\ kv'[k] # NoEntry /\ kv'[k] # kv[k]
    /\ kv'[k].ttl >= kv[k].ttl
MissedGet(r) ==
    /\ r.method = "GET" /\ r.xcache = "MISS"
    /\ r.handler /\ r.statusCode \in 200..299
C26_OnlyMissedGets ==
    [][/\ \A k \in DOMAIN kv : WroteEntry(k) =>
             \E o \in ops :
                 /\ o.op = "set" /\ buildCacheKey(o.prefix, o.key) = k
                 /\ MissedGet(creq[o.p])
                 /\ kv'[k].statusCode = creq[o.p].statusCode
                 /\ kv'[k].body = creq[o.p].body
       /\ \A o \in ops' : o.op = "set" => MissedGet(creq'[o.p])]_vars
C26_Witness ==
    /\ \E k \in DOMAIN kv : kv[k] # NoEntry
    /\ \E p \in Reqs :
          /\ creq[p].handler /\ creq[p].xcache = "none"
          /\ creq[p].pc = "done" /\ creq[p].statusCode = 200
(***************************************************************************)
(* How far concurrency lets a client go over the limit                     *)
(***************************************************************************)
\* C27: under a standard policy with limit N and at most K requests on one
\* counter key under way at any time (K = NumReq), no more than N + K - 1
\* requests are admitted and counted on the key within one window (here: in
\* a burst during which no second passes).
C27_BoundedOvershoot ==
    Standard(client) =>
        \A k \in DOMAIN win :
            win[k].counted <= rateLimitConfig[client.type].max + NumReq - 1
(***************************************************************************)
(* Invalidation against the GETs that fill the cache                       *)
(***************************************************************************)
\* an answer of c1's GET that a later successful change of the resource has
\* outdated (no TTL passes in StaleSpec, so the age is that of a change), its
\* setCache being over
Outdated(r) ==
    /\ r.method = "GET" /\ r.client = "c1" /\ r.xcache = "MISS"
    /\ r.handler /\ r.age = CacheTtl /\ r.pc = "done"

\* C28: after the invalidation of a successful change has completed (c2, the
\* only client that changes the resource, is reading again, so its changes
\* and their deleteCache are over), a cache hit does not return a body that a
\* handler computed before the change: c2's hit does not hand out c1's body
\* while c1's latest answer is one that a change has outdated
C28_NoStaleHit ==
    ~( /\ creq[2].method = "GET" /\ creq[2].xcache = "HIT"
       /\ creq[2].body = HandlerBody("c1", build.url)
       /\ Outdated(creq[1]) )
(***************************************************************************)
(* The PKCE challenge is consumed once                                     *)
(***************************************************************************)
\* C29: a challenge stored under a state is handed out by at most one call
\* of consumePKCEChallenge, whatever the interleaving of the calls: the calls
\* that returned data for a state are never more than the challenges stored
\* under it.
C29_SingleUse ==
    \A state \in PkceStates : pkce.returned[state] <= pkce.stored[state]
(***************************************************************************)
(* Token refresh is single-flight                                          *)
(***************************************************************************)
Refreshing == {i \in Calls : http.request[i].pc = "refresh"}
Queued == {i \in Calls : http.request[i].pc = "queued"}
InQueue == {http.failedQueue[n] : n \in 1..Len(http.failedQueue)}

\* the step handles a 401 of request i that is not for an auth endpoint and
\* comes while a refresh is under way
Late401(i) ==
    /\ http.request[i].pc = "sent" /\ http'.request[i].pc # "sent"
    /\ http'.request[i].status = 401
    /\ http.request[i].url = "api" /\ http.isRefreshing

\* the step in which the refresh settles deals with the whole queue
QueueSettled ==
    (http.isRefreshing /\ ~http'.isRefreshing) =>
        /\ http'.failedQueue = <<>>
        /\ \/ \A j \in Queued : http'.request[j].pc = "sent"
           \/ \A j \in Queued : http'.request[j].pc = "rejected"

\* C30 as stated: at most one refresh is under way, every 401 of a request
\* that is not for an auth endpoint and comes during a refresh is queued,
\* and the settling refresh replays or rejects the queue and leaves it
\* empty with isRefreshing false.
C30_Every401Queued ==
    [][/\ Cardinality(Refreshing') <= 1
       /\ \A i \in Calls : Late401(i) => http'.request[i].pc = "queued"
       /\ QueueSettled]_vars

\* C30, amended: the same for the requests that have not been retried yet; a
\* request that was already sent again after a refresh (_retry) and gets a
\* 401 during a later refresh is rejected, and starts no refresh either.
C30_SingleFlight ==
    [][/\ Cardinality(Refreshing') <= 1
       /\ http'.isRefreshing <=> Refreshing' # {}
       /\ Queued' = InQueue' /\ (~http'.isRefreshing => http'.failedQueue = <<>>)
       /\ \A i \in Calls : Late401(i) =>
             /\ ~http.request[i].retry => http'.request[i].pc = "queued"
             /\ http.request[i].retry => http'.request[i].pc = "rejected"
             /\ Refreshing' = Refreshing
       /\ QueueSettled]_vars
C30_Witness ==
    /\ http.isRefreshing /\ Refreshing # {}
    /\ \E i \in Queued : http.request[i].status = 401 /\ ~http.request[i].retry
====
